---- MODULE Spec2Model ----
(***************************************************************************)
(* Earnings Momentum + Breakout Strategy (src/app.py).                     *)
(*                                                                         *)
(* The script fetches one provider payload per symbol (get_stock_data),    *)
(* collects the records that were fetched into a table, scores and sorts   *)
(* the table (calculate_stock_scores) and shows the first rows.            *)
(*                                                                         *)
(* Numbers.  Every score of the program is a multiple of 0.1 of a half     *)
(* integer, so a score x is kept as the integer x * Unit, Unit = 20.  The  *)
(* multiplications by 0.5, 0.8, 1.2 and 10 are exact at this scale.        *)
(* Field values (growth rates, dates, symbols) are integers; a missing     *)
(* value (numpy.nan) is the integer NaN.                                   *)
(***************************************************************************)
EXTENDS Integers, Sequences, FiniteSets, TLC

VARIABLES
    symbols,         \* stocklist[sheet_selection], line 106
    risk_tolerance,  \* st.radio, line 102
    time_horizon,    \* st.radio, line 103
    provider,        \* the payload the provider gave for each symbol fetched so far
    stock_data,      \* the list comprehension of line 109, as far as it has got
    stock_df,        \* line 110 (and the argument of calculate_stock_scores)
    filtered_df,     \* line 114 (and the value calculate_stock_scores returns)
    raised,          \* the exception that left calculate_stock_scores, or "none"
    ui,              \* the calls made on the presentation layer, in order
    record,          \* the value get_stock_data returned (extraction on its own)
    pc               \* the position in the script

vars == <<symbols, risk_tolerance, time_horizon, provider, stock_data, stock_df,
          filtered_df, raised, ui, record, pc>>

(***************************************************************************)
(* Bounds of the model.                                                    *)
(***************************************************************************)
MaxSymbols == 2   \* longest symbol list of the whole script
MaxRows == 3      \* longest table handed to calculate_stock_scores on its own

\* numpy.nan: an integer outside every set of values the model draws from.
NaN == -99
\* The failure marker get_stock_data returns: unequal to every record.
None == [none |-> TRUE]
\* The fixed-point scale: halves (average ranks) of tenths (the multipliers).
Unit == 2 * 10

(***************************************************************************)
(* Program constants.                                                      *)
(***************************************************************************)
EMA_timeperiod == 50
RSI_timeperiod == 14
MACD_slowperiod == 26
MACD_signalperiod == 9
Volume_window == 20
SMA_timeperiod == 200
STOCH_fastk_period == 14
STOCH_slowk_period == 3
BBANDS_timeperiod == 20
HeadRows == 10

RiskTolerances == {"Conservative", "Balanced", "Aggressive"}
TimeHorizons == {"Hold until Earnings", "Hold 3M Post-Earnings"}

FundamentalColumns == {"Earnings Surprise %", "Revenue Growth"}
TechnicalColumns ==
    {"Price > EMA50", "RSI > 50", "MACD Bullish", "Volume Surge",
     "Price > SMA200", "Stochastic Overbought", "Bollinger Breakout"}
RecordColumns ==
    {"Symbol"} \cup FundamentalColumns \cup TechnicalColumns \cup {"Next Earnings Date"}
ScoreColumns ==
    {"Fundamental Score", "Technical Score", "Breakout Probability %", "Position Size"}

(***************************************************************************)
(* get_stock_data.                                                         *)
(*                                                                         *)
(* A provider payload says whether any call on it raises, what info holds  *)
(* for the two fundamental keys (NaN: key absent or null), how many        *)
(* periods the price history has, for each technical condition whether the *)
(* last close (or indicator value) exceeds its reference where that        *)
(* reference is a number, and what the calendar holds.                     *)
(***************************************************************************)

\* The number of periods an indicator needs before its last value is a number:
\* EMA/SMA/BBANDS and the rolling mean need their window, RSI one period more,
\* MACD's signal line slowperiod + signalperiod - 1, the slowed %K
\* fastk_period + slowk_period - 1 and the %D line computed with it 2 more.
Lookback ==
    [c \in TechnicalColumns |->
        CASE c = "Price > EMA50" -> EMA_timeperiod
          [] c = "RSI > 50" -> RSI_timeperiod + 1
          [] c = "MACD Bullish" -> MACD_slowperiod + MACD_signalperiod - 1
          [] c = "Volume Surge" -> Volume_window
          [] c = "Price > SMA200" -> SMA_timeperiod
          [] c = "Stochastic Overbought" -> STOCH_fastk_period + 2 * (STOCH_slowk_period - 1)
          [] c = "Bollinger Breakout" -> BBANDS_timeperiod]

\* hist[column].iloc[-1]: the indicator's last value is a number only with
\* enough periods; otherwise it is NaN.
LastIsNumber(histLen, c) == histLen >= Lookback[c]

\* 1 if <last close or value> > <reference> else 0: a comparison with NaN is
\* False, so the condition is 0 when the reference is NaN.
Condition(histLen, above, c) ==
    IF LastIsNumber(histLen, c) /\ above[c] THEN 1 ELSE 0

\* lines 29-50
TechnicalFields(resp) ==
    [c \in TechnicalColumns |->
        IF resp.histLen > 0 THEN Condition(resp.histLen, resp.above, c) ELSE NaN]

\* lines 57-58: x if pd.notna(x) else 0
ZeroFill(x) == IF x # NaN THEN x ELSE 0

\* lines 16-69
get_stock_data(symbol, resp) ==
    IF resp.raises
    THEN None
    ELSE [c \in RecordColumns |->
            CASE c = "Symbol" -> symbol
              [] c = "Earnings Surprise %" -> ZeroFill(resp.earningsSurprise)
              [] c = "Revenue Growth" -> ZeroFill(resp.revenueGrowth)
              [] c = "Next Earnings Date" -> resp.earningsDate
              [] OTHER -> TechnicalFields(resp)[c]]

(***************************************************************************)
(* pandas, as far as the script uses it.  A frame is its set of columns    *)
(* and its rows in order; a row maps each column to a value.               *)
(***************************************************************************)
NoFrame == [cols |-> {}, rows |-> <<>>]

\* pd.DataFrame(list of dicts): the columns are the keys of the dicts, so a
\* frame built from an empty list has no columns at all.
DataFrame(records) ==
    [cols |-> IF records = <<>> THEN {} ELSE RecordColumns, rows |-> records]

\* df.empty
Empty(df) == df.cols = {} \/ df.rows = <<>>

\* A row has a missing value in one of the frame's columns.
HasNaN(df, row) == \E c \in df.cols : row[c] = NaN

\* df.dropna().reset_index(drop=True): no subset is given, so a row goes when
\* ANY of its columns is missing; the columns stay.
dropna(df) ==
    [cols |-> df.cols, rows |-> SelectSeq(df.rows, LAMBDA row : ~HasNaN(df, row))]

\* Series.rank(ascending=False, method="min"): the rows of one value share the
\* first of their positions.
Rank_min(rows, c, i) ==
    Unit * (1 + Cardinality({j \in 1..Len(rows) : rows[j][c] > rows[i][c]}))

\* Series.rank() with the default ascending=True: lowest value first.
Rank_ascending(rows, c, i) ==
    LET smaller == Cardinality({j \in 1..Len(rows) : rows[j][c] < rows[i][c]})
        equal == Cardinality({j \in 1..Len(rows) : rows[j][c] = rows[i][c]})
    IN  (Unit \div 2) * (2 * smaller + equal + 1)

\* Series.rank(ascending=False), method "average" by default: the rows of one
\* value share the mean of the positions 1..N they occupy, highest value first.
\* The result is in Units (a half-integer rank r is r * Unit).
Rank(rows, c, i) ==
    LET greater == Cardinality({j \in 1..Len(rows) : rows[j][c] > rows[i][c]})
        equal == Cardinality({j \in 1..Len(rows) : rows[j][c] = rows[i][c]})
    IN  (Unit \div 2) * (2 * greater + equal + 1)

\* line 76
FundamentalScore(rows, i) ==
    Rank(rows, "Earnings Surprise %", i) + Rank(rows, "Revenue Growth", i)

\* line 77
TechnicalScore(row) ==
    Unit * (row["Price > EMA50"] + row["RSI > 50"] + row["MACD Bullish"]
            + row["Volume Surge"] + row["Price > SMA200"]
            + row["Stochastic Overbought"] + row["Bollinger Breakout"])

\* line 80: ((F * 0.5) + (T * 0.5)) * 10
BreakoutProbability(f, t) == ((f * 5) \div 10 + (t * 5) \div 10) * 10

\* The two pairs of multipliers exchanged.
PositionSize_swapped(f, t, rt) ==
    CASE rt = "Aggressive" -> (f * 8) \div 10 + (t * 12) \div 10
      [] rt = "Conservative" -> (f * 12) \div 10 + (t * 8) \div 10
      [] OTHER -> f + t

\* lines 83-88
PositionSize(f, t, rt) ==
    CASE rt = "Aggressive" -> (f * 12) \div 10 + (t * 8) \div 10
      [] rt = "Conservative" -> (f * 8) \div 10 + (t * 12) \div 10
      [] OTHER -> f + t

\* lines 76-88: the rows with their four new columns, still in input order.
Scored(rows, rt) ==
    [i \in DOMAIN rows |->
        LET f == FundamentalScore(rows, i)
            t == TechnicalScore(rows[i])
        IN  rows[i] @@
            [c \in ScoreColumns |->
                CASE c = "Fundamental Score" -> f
                  [] c = "Technical Score" -> t
                  [] c = "Breakout Probability %" -> BreakoutProbability(f, t)
                  [] OTHER -> PositionSize(f, t, rt)]]

\* The orders of the rows numbered in `left` that are non-increasing in the
\* key: any row with the highest key among those left may come first.
RECURSIVE Orders(_, _, _)
Orders(rows, by, left) ==
    IF left = {}
    THEN {<<>>}
    ELSE UNION {{<<rows[i]>> \o rest : rest \in Orders(rows, by, left \ {i})} :
                  i \in {k \in left : \A j \in left : rows[k][by] >= rows[j][by]}}

\* df.sort_values(...) whose result is not assigned back: the rows as they were.
sort_values_not_assigned(rows, by) == {rows}

\* df.sort_values(by=..., ascending=False) with the default kind "quicksort",
\* which pandas documents as not stable: every order of the rows that is
\* non-increasing in the key is a possible result.
sort_values(rows, by) == Orders(rows, by, 1..Len(rows))

\* lines 72-92: what a call can do.  df["Earnings Surprise %"] raises KeyError
\* on a frame without that column.
calculate_stock_scores(df, rt) ==
    LET kept == dropna(df)
    IN  IF "Earnings Surprise %" \notin kept.cols
        THEN {[raised |-> "KeyError", df |-> NoFrame]}
        ELSE {[raised |-> "none",
               df |-> [cols |-> kept.cols \cup ScoreColumns, rows |-> sorted]] :
                 sorted \in sort_values(Scored(kept.rows, rt), "Breakout Probability %")}

Min(a, b) == IF a < b THEN a ELSE b

\* df[columns].head(n)
head(df, columns, n) ==
    [cols |-> columns,
     rows |-> [i \in 1..Min(n, Len(df.rows)) |-> [c \in columns |-> df.rows[i][c]]]]

(***************************************************************************)
(* Inputs.                                                                 *)
(***************************************************************************)
AllAbove == [c \in TechnicalColumns |-> TRUE]
NoneAbove == [c \in TechnicalColumns |-> FALSE]
SomeAbove == [c \in TechnicalColumns |-> c \in {"Price > EMA50", "RSI > 50", "Volume Surge", "Bollinger Breakout"}]

\* A history of no period, of one, and of one period less than and exactly
\* what each indicator needs.
HistLens == {0, 1} \cup UNION {{Lookback[c] - 1, Lookback[c]} : c \in TechnicalColumns}

\* Values of info['earningsSurprise'], info['revenueGrowth'] and of the date.
SurpriseValues == {0, 1}
GrowthValues == {0, 1}
Dates == {1}

\* Every payload get_stock_data is checked on by itself.
Responses ==
    [raises : BOOLEAN, earningsSurprise : SurpriseValues \cup {NaN},
     revenueGrowth : {1, NaN}, histLen : HistLens,
     above : [TechnicalColumns -> BOOLEAN], earningsDate : Dates \cup {NaN}]

\* The payloads the whole script is run on.
PipelineResponses ==
    [raises : {FALSE}, earningsSurprise : {1, NaN}, revenueGrowth : {1, NaN},
     histLen : {0, Volume_window, SMA_timeperiod}, above : {AllAbove},
     earningsDate : Dates \cup {NaN}]
    \cup
    [raises : {TRUE}, earningsSurprise : {NaN}, revenueGrowth : {NaN},
     histLen : {0}, above : {AllAbove}, earningsDate : {NaN}]

\* The rows calculate_stock_scores is checked on by itself: complete rows, and
\* rows with one technical field, every technical field, or only the date
\* missing.
CompleteRow(symbol, es, rg, above) ==
    get_stock_data(symbol,
        [raises |-> FALSE, earningsSurprise |-> es, revenueGrowth |-> rg,
         histLen |-> SMA_timeperiod, above |-> above, earningsDate |-> 1])

RowKinds ==
    [kind : {"complete"}, es : SurpriseValues, rg : GrowthValues, above : {NoneAbove, SomeAbove}]
    \cup
    [kind : {"no volume surge", "no technical field", "no date"},
     es : {1}, rg : {1}, above : {SomeAbove}]

InputRow(symbol, k) ==
    LET row == CompleteRow(symbol, k.es, k.rg, k.above)
    IN  CASE k.kind = "no volume surge" -> [row EXCEPT !["Volume Surge"] = NaN]
          [] k.kind = "no date" -> [row EXCEPT !["Next Earnings Date"] = NaN]
          [] k.kind = "no technical field" ->
                [c \in RecordColumns |-> IF c \in TechnicalColumns THEN NaN ELSE row[c]]
          [] OTHER -> row

\* The tables of n rows; row i carries the symbol i.
InputFrames(n) ==
    {DataFrame([i \in 1..n |-> InputRow(i, ks[i])]) : ks \in [1..n -> RowKinds]}

(***************************************************************************)
(* The script, lines 95-127.  ui holds the calls that show the result.     *)
(***************************************************************************)
Init ==
    /\ symbols \in {[i \in 1..n |-> i] : n \in 0..MaxSymbols}
    /\ risk_tolerance \in RiskTolerances
    /\ time_horizon \in TimeHorizons
    /\ provider = <<>>
    /\ stock_data = <<>>
    /\ stock_df = NoFrame
    /\ filtered_df = NoFrame
    /\ raised = "none"
    /\ ui = <<>>
    /\ record = None
    /\ pc = "fetch"

\* line 109, one element of the comprehension: the next symbol in list order.
Fetch ==
    /\ pc = "fetch"
    /\ Len(stock_data) < Len(symbols)
    /\ \E resp \in PipelineResponses :
        /\ provider' = Append(provider, resp)
        /\ stock_data' = Append(stock_data, get_stock_data(symbols[Len(stock_data) + 1], resp))
    /\ UNCHANGED <<symbols, risk_tolerance, time_horizon, stock_df, filtered_df, raised, ui, record, pc>>

\* [s for s in stock_data]: the filter left out.
Truthy_keeps_all(s) == TRUE

\* [s for s in stock_data if s]: None is falsy, a record (a non-empty dict) is not.
Truthy(s) == s # None

\* line 110
Collect ==
    /\ pc = "fetch"
    /\ Len(stock_data) = Len(symbols)
    /\ stock_df' = DataFrame(SelectSeq(stock_data, Truthy))
    /\ pc' = "check"
    /\ UNCHANGED <<symbols, risk_tolerance, time_horizon, provider, stock_data, filtered_df, raised, ui, record>>

\* lines 113-114
Score ==
    /\ pc = "check"
    /\ ~Empty(stock_df)
    /\ \E out \in calculate_stock_scores(stock_df, risk_tolerance) :
        /\ filtered_df' = out.df
        /\ raised' = out.raised
        /\ pc' = IF out.raised = "none" THEN "display" ELSE "crashed"
    /\ UNCHANGED <<symbols, risk_tolerance, time_horizon, provider, stock_data, stock_df, ui, record>>

ExitPoint(th) == IF th = "Hold until Earnings" THEN "Sell after earnings" ELSE "Hold 3 months"

\* lines 117-124
Display ==
    /\ pc = "display"
    /\ LET labelled ==
            [cols |-> filtered_df.cols \cup {"Entry Point", "Exit Point"},
             rows |-> [i \in 1..Len(filtered_df.rows) |->
                         filtered_df.rows[i] @@
                         [c \in {"Entry Point", "Exit Point"} |->
                            IF c = "Entry Point" THEN "Buy now (pre-earnings)"
                            ELSE ExitPoint(time_horizon)]]]
       IN /\ filtered_df' = labelled
          /\ ui' = ui \o
                <<[widget |-> "subheader", data |-> NoFrame],
                  [widget |-> "dataframe",
                   data |-> head(filtered_df, {"Symbol", "Next Earnings Date", "Breakout Probability %", "Position Size"}, HeadRows)],
                  [widget |-> "subheader", data |-> NoFrame],
                  [widget |-> "dataframe",
                   data |-> head(labelled, {"Symbol", "Breakout Probability %", "Entry Point", "Exit Point"}, HeadRows)]>>
    /\ pc' = "done"
    /\ UNCHANGED <<symbols, risk_tolerance, time_horizon, provider, stock_data, stock_df, raised, record>>

\* lines 126-127
Warn ==
    /\ pc = "check"
    /\ Empty(stock_df)
    /\ ui' = Append(ui, [widget |-> "warning", data |-> NoFrame])
    /\ pc' = "done"
    /\ UNCHANGED <<symbols, risk_tolerance, time_horizon, provider, stock_data, stock_df, filtered_df, raised, record>>

Next == Fetch \/ Collect \/ Score \/ Display \/ Warn

Spec == Init /\ [][Next]_vars

(***************************************************************************)
(* calculate_stock_scores on its own: one call on a table drawn from       *)
(* InputFrames, with any risk tolerance.                                   *)
(***************************************************************************)
RankInit ==
    /\ symbols = <<>>
    /\ risk_tolerance = "Balanced"
    /\ time_horizon = "Hold until Earnings"
    /\ provider = <<>>
    /\ stock_data = <<>>
    /\ \E n \in 0..MaxRows : stock_df \in InputFrames(n)
    /\ filtered_df = NoFrame
    /\ raised = "none"
    /\ ui = <<>>
    /\ record = None
    /\ pc = "rank"

\* calculate_stock_scores(stock_df, rt), for any of the three settings.
RankCall ==
    /\ pc = "rank"
    /\ \E rt \in RiskTolerances :
        /\ risk_tolerance' = rt
        /\ \E out \in calculate_stock_scores(stock_df, rt) :
            /\ filtered_df' = out.df
            /\ raised' = out.raised
    /\ pc' = "ranked"
    /\ UNCHANGED <<symbols, time_horizon, provider, stock_data, stock_df, ui, record>>

RankNext == RankCall

RankSpec == RankInit /\ [][RankNext]_vars

(***************************************************************************)
(* get_stock_data on its own: one call on a payload drawn from Responses.  *)
(***************************************************************************)
ExtractInit ==
    /\ symbols = <<1>>
    /\ risk_tolerance = "Balanced"
    /\ time_horizon = "Hold until Earnings"
    /\ provider \in {<<resp>> : resp \in Responses}
    /\ stock_data = <<>>
    /\ stock_df = NoFrame
    /\ filtered_df = NoFrame
    /\ raised = "none"
    /\ ui = <<>>
    /\ record = None
    /\ pc = "extract"

ExtractCall ==
    /\ pc = "extract"
    /\ record' = get_stock_data(symbols[1], provider[1])
    /\ pc' = "extracted"
    /\ UNCHANGED <<symbols, risk_tolerance, time_horizon, provider, stock_data, stock_df, filtered_df, raised, ui>>

ExtractNext == ExtractCall

ExtractSpec == ExtractInit /\ [][ExtractNext]_vars

(***************************************************************************)
(* Properties.                                                             *)
(***************************************************************************)
\* The rows of the input table without a missing value, in input order.
Kept == dropna(stock_df).rows
Ranked == pc = "ranked" /\ raised = "none"
Out == filtered_df.rows
Strip(row) == [c \in RecordColumns |-> row[c]]
Count(rows, r) == Cardinality({i \in 1..Len(rows) : rows[i] = r})
BP(row) == row["Breakout Probability %"]
F(row) == row["Fundamental Score"]
T(row) == row["Technical Score"]

\* C1: a call on a table with N >= 1 surviving rows returns exactly N rows, a
\* permutation of the surviving input rows (none lost, duplicated or
\* invented), with Breakout Probability % non-increasing from first to last.
C1_PermutationSortedDescending ==
    Ranked =>
        LET kept == Kept
            out == [i \in 1..Len(Out) |-> Strip(Out[i])]
        IN  Len(kept) >= 1 =>
                /\ Len(out) = Len(kept)
                /\ \A i \in 1..Len(out) : Count(kept, out[i]) = Count(out, out[i])
                /\ \A i \in 1..Len(kept) : Count(out, kept[i]) = Count(kept, kept[i])
                /\ \A i \in 1..(Len(out) - 1) : BP(Out[i]) >= BP(Out[i + 1])

\* Three rows survive, their keys differ and the call has reordered them.
C1_Witness ==
    /\ Ranked
    /\ Len(Kept) = 3
    /\ BP(Out[1]) > BP(Out[2]) /\ BP(Out[2]) > BP(Out[3])
    /\ Out[1]["Symbol"] = 3 /\ Out[3]["Symbol"] = 1

\* C2: a row is dropped if and only if one of its fundamental or technical
\* fields is missing; a missing Next Earnings Date alone does not drop it.
C2_DroppedIffSignalMissing ==
    Ranked =>
        \A i \in 1..Len(stock_df.rows) :
            (\A j \in 1..Len(Out) : Out[j]["Symbol"] # stock_df.rows[i]["Symbol"])
            <=> (\E c \in FundamentalColumns \cup TechnicalColumns : stock_df.rows[i][c] = NaN)

\* The records of the symbols whose payload did not raise, in list order,
\* each computed from its own symbol and payload alone.
RECURSIVE Fetched(_, _)
Fetched(syms, payloads) ==
    IF syms = <<>>
    THEN <<>>
    ELSE LET rest == Fetched(Tail(syms), Tail(payloads))
         IN  IF payloads[1].raises
             THEN rest
             ELSE <<get_stock_data(syms[1], payloads[1])>> \o rest

\* C3: whatever symbols fail, the batch is not aborted: get_stock_data is
\* called once per symbol, one at a time in list order, a failing symbol
\* yields None and is left out, and the table handed to scoring holds exactly
\* the records of the non-failing symbols in list order, each the record its
\* own payload gives.
C3_FailuresIsolatedPerSymbol ==
    /\ pc # "crashed"
    /\ Len(stock_data) = Len(provider) /\ Len(stock_data) <= Len(symbols)
    /\ pc = "fetch" => stock_df = NoFrame
    /\ \A i \in 1..Len(stock_data) :
        /\ provider[i].raises => stock_data[i] = None
        /\ ~provider[i].raises =>
            /\ stock_data[i] # None
            /\ stock_data[i]["Symbol"] = symbols[i]
    /\ pc # "fetch" =>
        /\ Len(stock_data) = Len(symbols)
        /\ stock_df.rows = Fetched(symbols, provider)
        /\ \A i \in 1..Len(stock_df.rows) : stock_df.rows[i] # None

\* The first of two symbols failed, the second did not, and the run finished
\* with the second symbol's record alone in the table.
C3_Witness ==
    /\ pc = "done"
    /\ Len(symbols) = 2
    /\ provider[1].raises /\ ~provider[2].raises
    /\ Len(stock_df.rows) = 1 /\ stock_df.rows[1]["Symbol"] = 2

IsWarning(call) == call.widget = "warning"
IsTable(call) == call.widget = "dataframe"

\* C4: whenever zero rows survive (every symbol failed, or every record was
\* dropped during scoring) the presentation layer shows the "no candidates"
\* warning and no result table, and the run does not crash.
C4_EmptyBatchShowsWarning ==
    /\ pc # "crashed"
    /\ (pc = "done" /\ Kept = <<>>) =>
        /\ \E i \in 1..Len(ui) : IsWarning(ui[i])
        /\ \A i \in 1..Len(ui) : ~IsTable(ui[i])

\* C5: a history that is empty or shorter than the longest lookback in use
\* (the 200 periods of SMA200) makes all seven technical fields missing, none
\* of them 0 or 1, and the record is dropped during scoring.
C5_ShortHistoryAllMissing ==
    (pc = "extracted" /\ ~provider[1].raises /\ provider[1].histLen < SMA_timeperiod) =>
        /\ \A c \in TechnicalColumns : record[c] = NaN
        /\ dropna(DataFrame(<<record>>)).rows = <<>>

\* C6: the sort is stable: of two returned rows with equal Breakout
\* Probability %, the one earlier in the input table is earlier in the result.
C6_SortStable ==
    Ranked =>
        \A i, j \in 1..Len(Out) :
            (i < j /\ BP(Out[i]) = BP(Out[j])) => Out[i]["Symbol"] < Out[j]["Symbol"]

\* C7: a call on an empty sequence of records, or on records that all have a
\* missing field, returns an empty sequence and raises no error.
C7_EmptyInputReturnsEmpty ==
    (pc = "ranked" /\ Kept = <<>>) => (raised = "none" /\ Out = <<>>)

\* Two rows agree on every column but Position Size.
SameButSize(a, b) == \A c \in (RecordColumns \cup ScoreColumns) \ {"Position Size"} : a[c] = b[c]

\* C8: for every surviving row, Position Size under "Aggressive" is greater
\* than under "Conservative" when Fundamental Score > Technical Score, smaller
\* when Technical Score > Fundamental Score, and equal when the scores are
\* equal; the scores and the row order do not depend on the risk tolerance.
C8_AggressiveVersusConservative ==
    Ranked =>
        LET kept == Kept
            out == Out
        IN  /\ Len(out) = Len(kept)
            /\ \A i \in 1..Len(kept) :
                LET a == Scored(kept, "Aggressive")[i]
                    c == Scored(kept, "Conservative")[i]
                    b == Scored(kept, "Balanced")[i]
                IN  /\ F(a) > T(a) => a["Position Size"] > c["Position Size"]
                    /\ T(a) > F(a) => a["Position Size"] < c["Position Size"]
                    /\ F(a) = T(a) => a["Position Size"] = c["Position Size"]
                    \* the scores are those of the returned row, whatever the
                    \* risk tolerance of the call was
                    /\ \A j \in 1..Len(out) :
                        out[j]["Symbol"] = kept[i]["Symbol"] =>
                            SameButSize(out[j], a) /\ SameButSize(out[j], c) /\ SameButSize(out[j], b)
            \* and so is the order: descending in the key they all share
            /\ \A j \in 1..(Len(out) - 1) : BP(out[j]) >= BP(out[j + 1])

\* An aggressive call returned a row with Fundamental Score above Technical
\* Score, one with it below and one with the two equal.
C8_Witness ==
    /\ Ranked
    /\ risk_tolerance = "Aggressive"
    /\ \E i, j, k \in 1..Len(Out) :
        /\ F(Out[i]) > T(Out[i])
        /\ F(Out[j]) < T(Out[j])
        /\ F(Out[k]) = T(Out[k])

\* The positions 1..N the rows sharing row i's value of column c occupy when
\* the column is ordered highest first.
First(rows, c, i) == 1 + Cardinality({j \in 1..Len(rows) : rows[j][c] > rows[i][c]})
Last(rows, c, i) == Cardinality({j \in 1..Len(rows) : rows[j][c] >= rows[i][c]})

\* C9 as stated: every row gets, for each fundamental field, an integer rank
\* in 1..N with 1 for the highest value, also with equal values in a field, so
\* that Fundamental Score is an integer between 2 and 2N.
C9_IntegerRanks ==
    Ranked =>
        LET kept == Kept
            out == Out
        IN  \A i \in 1..Len(kept) :
                /\ \A c \in FundamentalColumns :
                    /\ \E r \in 1..Len(kept) : Rank(kept, c, i) = r * Unit
                    /\ First(kept, c, i) = 1 => Rank(kept, c, i) = Unit
                /\ \E n \in 2..(2 * Len(kept)) :
                    \A j \in 1..Len(out) :
                        out[j]["Symbol"] = kept[i]["Symbol"] => F(out[j]) = n * Unit

\* C9 as amended: every row gets, for each fundamental field, the mean of the
\* positions 1..N that the rows sharing its value occupy (highest value
\* first): a multiple of 0.5 between 1 and N, an integer when no other row
\* shares the value, 1 for a highest value no other row shares.  Fundamental
\* Score, the sum of the two, is a multiple of 0.5 between 2 and 2N.
C9_AverageRanks ==
    Ranked =>
        LET kept == Kept
            out == Out
        IN  \A i \in 1..Len(kept) :
                /\ \A c \in FundamentalColumns :
                    /\ 2 * Rank(kept, c, i) = Unit * (First(kept, c, i) + Last(kept, c, i))
                    /\ Rank(kept, c, i) >= Unit /\ Rank(kept, c, i) <= Len(kept) * Unit
                /\ \A j \in 1..Len(out) :
                    out[j]["Symbol"] = kept[i]["Symbol"] =>
                        /\ F(out[j]) = Rank(kept, "Earnings Surprise %", i) + Rank(kept, "Revenue Growth", i)
                        /\ \E n \in 4..(4 * Len(kept)) : 2 * F(out[j]) = n * Unit

\* Three rows survive, two of them share the highest Earnings Surprise % and
\* one of those has a Fundamental Score that is no integer.
C9_Witness ==
    /\ Ranked
    /\ Len(Kept) = 3
    /\ \E i, j \in 1..3 :
        /\ i # j
        /\ Kept[i]["Earnings Surprise %"] = Kept[j]["Earnings Surprise %"]
        /\ First(Kept, "Earnings Surprise %", i) = 1
        /\ \E k \in 1..3 : Out[k]["Symbol"] = Kept[i]["Symbol"] /\ F(Out[k]) % Unit # 0

\* C10: of two returned rows with equal Technical Score, the one with the
\* strictly higher Earnings Surprise % and the strictly higher Revenue Growth
\* has the strictly lower Fundamental Score and the strictly lower Breakout
\* Probability %, and comes after the other in the returned order.
C10_BetterFundamentalsRankLater ==
    Ranked =>
        \A i, j \in 1..Len(Out) :
            ( /\ T(Out[i]) = T(Out[j])
              /\ Out[i]["Earnings Surprise %"] > Out[j]["Earnings Surprise %"]
              /\ Out[i]["Revenue Growth"] > Out[j]["Revenue Growth"] )
            => /\ F(Out[i]) < F(Out[j])
               /\ BP(Out[i]) < BP(Out[j])
               /\ i > j

\* Of three returned rows with one Technical Score, the first in the input
\* has the higher value in both fundamental fields and is returned last.
C10_Witness ==
    /\ Ranked
    /\ Len(Out) = 3
    /\ Out[3]["Symbol"] = 1
    /\ T(Out[3]) = T(Out[1]) /\ T(Out[3]) > 0
    /\ Out[3]["Earnings Surprise %"] > Out[1]["Earnings Surprise %"]
    /\ Out[3]["Revenue Growth"] > Out[1]["Revenue Growth"]

====
